---- MODULE Spec2Model ----
(***************************************************************************)
(* Code-package assembly of metaflow: the asynchronous package controller  *)
(* (metaflow/package.py), the MFEnv file aggregator and tree walker        *)
(* (metaflow/package/mfenv.py) and the deterministic archive builder       *)
(* (metaflow/package/__init__.py).                                         *)
(*                                                                         *)
(* Each component has its own specification over the shared variable list; *)
(* a specification leaves the variables of the other components at their   *)
(* idle values.                                                            *)
(***************************************************************************)
EXTENDS Integers, Sequences, FiniteSets, TLC

VARIABLES
    \* ---- package controller (metaflow/package.py) ----
    pc,                     \* position of the worker thread in _prepare_and_upload_package
    is_package_available,   \* self._is_package_available: "None", "True" or "False"
    blob,                   \* self.blob
    package_url,            \* self.package_url
    package_sha,            \* self.package_sha
    exception,              \* self.exception
    flow_datastore,         \* constructor argument: "None" or "store"
    logger,                 \* constructor argument: "None" or "callable"
    nDecos,                 \* number of (step, decorator) pairs of the flow
    decoIdx,                \* next decorator whose package_init is to be called
    curExc,                 \* the exception e bound by "except Exception as e"
    saved,                  \* value of save_data(...)[0] before it is unpacked
    logs,                   \* messages the logger has accepted, in order
    raisedAt,               \* collaborator calls that raised, in order
    calls,                  \* collaborator calls the worker has made, in order
    wpc,                    \* position of each observer inside wait()
    wtimeout,               \* timeout argument of each observer's current wait()
    wlate,                  \* whether the worker had ended when the current wait() began
    waitResult,             \* outcome of each observer's last wait()
    \* ---- tree walker (walk_without_cycles) ----
    links,                  \* the tree: the symlinks held by each real directory
    stack,                  \* active _recurse generators, innermost last
    seen,                   \* the closure variable seen
    yields,                 \* (parent, real directory) pairs yielded so far
    \* ---- MFEnv file aggregator ----
    _modules,               \* self._modules: the selected modules, in dict order
    _files,                 \* self._files: source path -> archive path
    _content,               \* self._content: SpecialFile -> bytes
    envError,               \* exception raised by the last MFEnv call, or "None"
    lastCall,               \* the last call made on the MFEnv object and its arguments
    \* ---- one call of walk (MFEnv.walk, MetaflowPackage._walk) ----
    filtInput,              \* root, exclude_hidden, suffixes, the tree below root
    filtOutput,             \* the (path, archive path) pairs yielded
    \* ---- one call of MFEnv._module_files ----
    modInput,               \* name, paths, the module's distributions, the trees
    modResult,              \* what the generator yielded and what it raised
    \* ---- decorator contributions (_addl_files / path_tuples) ----
    contributions,          \* what the add_to_package hooks yield, flattened
    addlIdx,                \* number of contributions consumed
    deco_module_paths,      \* the local dict deco_module_paths
    emitted,                \* path tuples yielded so far
    addlError,              \* the exception raised, or "None"
    \* ---- archive builder (_make / _create_package) ----
    buildInput,             \* the file set and special content being packaged
    builds                  \* result of each of the two builds

ctlVars == <<pc, is_package_available, blob, package_url, package_sha, exception,
             flow_datastore, logger, nDecos, decoIdx, curExc, saved, logs, raisedAt,
             calls, wpc, wtimeout, wlate, waitResult>>
walkVars == <<links, stack, seen, yields>>
envVars == <<_modules, _files, _content, envError, lastCall>>
filtVars == <<filtInput, filtOutput>>
modVars == <<modInput, modResult>>
addlVars == <<contributions, addlIdx, deco_module_paths, emitted, addlError>>
buildVars == <<buildInput, builds>>
vars == <<ctlVars, walkVars, filtVars, envVars, modVars, addlVars, buildVars>>
nonCtl == <<walkVars, filtVars, envVars, modVars, addlVars, buildVars>>
nonWalk == <<ctlVars, filtVars, envVars, modVars, addlVars, buildVars>>
nonEnv == <<ctlVars, walkVars, filtVars, modVars, addlVars, buildVars>>
nonMod == <<ctlVars, walkVars, filtVars, envVars, addlVars, buildVars>>
nonFilt == <<ctlVars, walkVars, envVars, modVars, addlVars, buildVars>>
nonAddl == <<ctlVars, walkVars, filtVars, envVars, modVars, buildVars>>
nonBuild == <<ctlVars, walkVars, filtVars, envVars, modVars, addlVars>>

None == "None"
\* None in a field that otherwise holds an exception object
NoException == [kind |-> "None"]
\* None in a field that otherwise holds a sequence (a bytearray, a tuple)
NoValue == <<>>

\* ---- bounds of the model ----
MaxDecos == 2
NumObservers == 1
NumDirs == 3
MaxDepth == 5
MaxAddFiles == 1
MaxContribs == 3
MaxDists == 2

CtlIdle ==
    /\ pc = "idle" /\ is_package_available = None /\ blob = NoValue
    /\ package_url = None /\ package_sha = None /\ exception = NoException
    /\ flow_datastore = None /\ logger = None /\ nDecos = 0 /\ decoIdx = 0
    /\ curExc = None /\ saved = NoValue /\ logs = <<>> /\ raisedAt = <<>>
    /\ calls = <<>>
    /\ wpc = <<>> /\ wtimeout = <<>> /\ wlate = <<>> /\ waitResult = <<>>
WalkIdle == links = <<>> /\ stack = <<>> /\ seen = {} /\ yields = <<>>
EnvIdle ==
    /\ _modules = <<>> /\ _files = <<>> /\ _content = <<>> /\ envError = None
    /\ lastCall = [op |-> None]
FiltIdle == filtInput = [root |-> <<>>] /\ filtOutput = [called |-> FALSE, yielded |-> {}]
ModIdle == modInput = [name |-> None] /\ modResult = [emitted |-> <<>>, raised |-> "idle"]
AddlIdle ==
    /\ contributions = <<>> /\ addlIdx = 0 /\ deco_module_paths = <<>>
    /\ emitted = <<>> /\ addlError = NoException
BuildIdle == buildInput = [builder |-> None] /\ builds = <<>>

(***************************************************************************)
(* Deterministic archive builder                                           *)
(*   metaflow/package/__init__.py: _add_file, _make                        *)
(*   metaflow/package.py: _add_info, _create_package                       *)
(*                                                                         *)
(* A blob is the gzip container: ten header bytes (magic 1f 8b, method 8,  *)
(* flags 0, the four little-endian bytes of int(time.time()), xfl 0 for    *)
(* compresslevel 3, os ff) followed by the compressed tar stream.  The     *)
(* stream is kept as the sequence of its tar members: deflate and the      *)
(* CRC trailer are deterministic in the members.                           *)
(***************************************************************************)
FixedMtime == 1575360000
OversizeLimit == 104857600

\* write32u(int(time.time())): wall-clock values stay below 2^31
LE32(n) ==
    <<n % 256, (n \div 256) % 256, (n \div 65536) % 256, (n \div 16777216) % 256>>

GzipHeader(now) == <<31, 139, 8, 0>> \o LE32(now) \o <<0, 255>>

\* tarfile.TarFile.gettarinfo: name from arcname, mtime from the file's stat
gettarinfo(path, arcname, fs) ==
    [name |-> arcname, mtime |-> fs.mtime[path], data |-> fs.data[path]]

no_mtime_keep(tarinfo) == tarinfo
no_mtime(tarinfo) == [tarinfo EXCEPT !.mtime = FixedMtime]

\* tar.add(path, arcname=arcname, recursive=False, filter=no_mtime)
tar_add(path, arcname, fs) == no_mtime(gettarinfo(path, arcname, fs))

\* _add_file(tar, filename, buf); a fresh tarfile.TarInfo has mtime 0
_add_file_default_mtime(filename, buf) == [name |-> filename, mtime |-> 0, data |-> buf]
_add_file(filename, buf) == [name |-> filename, mtime |-> FixedMtime, data |-> buf]

\* _add_info(tar): the member named os.path.basename(INFO_FILE) of package.py
_add_info(envinfo) == [name |-> <<"INFO">>, mtime |-> FixedMtime, data |-> envinfo]

TarAddAll(tuples, fs) == [i \in 1..Len(tuples) |-> tar_add(tuples[i][1], tuples[i][2], fs)]

\* blob[4:8] = [0] * 4
ResetTimestamp(b) == [i \in 1..Len(b) |-> IF i - 1 \in 4..7 THEN 0 ELSE b[i]]

\* package/__init__.py _make: files(), then contents(), then the user code
_make(files, contents, usercode, fs, now) ==
    ResetTimestamp(
        GzipHeader(now)
        \o TarAddAll(files, fs)
        \o [i \in 1..Len(contents) |-> _add_file(contents[i][2], contents[i][1])]
        \o TarAddAll(usercode, fs))

\* package.py _create_package, up to the size check: INFO, then path_tuples()
CreatePackageBytes(envinfo, path_tuples, fs, now) ==
    GzipHeader(now) \o <<_add_info(envinfo)>> \o TarAddAll(path_tuples, fs)

\* len(blob) > 100 * 1024.0**2
Oversize(len) == len > OversizeLimit

\* package.py _create_package: the compressed stream is streamLen bytes long and
\* lg is what the call of self.logger does; the warning is logged before the
\* timestamp is reset, so a failing logger call leaves no blob
_create_package(envinfo, path_tuples, fs, now, streamLen, lg) ==
    IF Oversize(10 + streamLen) /\ lg # "ok"
    THEN [raised |-> TRUE, blob |-> NoValue, warned |-> FALSE]
    ELSE [raised |-> FALSE,
          blob |-> ResetTimestamp(CreatePackageBytes(envinfo, path_tuples, fs, now)),
          warned |-> Oversize(10 + streamLen)]

(***************************************************************************)
(* Decorator contributions                                                 *)
(*   metaflow/package/__init__.py: _addl_files                             *)
(*   metaflow/package.py: path_tuples (the deco_module_paths loop)         *)
(***************************************************************************)
NonUniqueFileNameToFilePathMappingException(filename, file_paths) ==
    [kind |-> "NonUniqueFileNameToFilePathMappingException",
     filename |-> filename, file_paths |-> file_paths]

\* "file_name not in deco_module_paths"
IsNewNameIgnoringDict(file_name, paths) == TRUE
IsNewName(file_name, paths) == file_name \notin DOMAIN paths

\* one iteration of "for path_tuple in deco.add_to_package()"
\* st = [paths: deco_module_paths, out: tuples yielded, err: exception or None]
AddlStep(st, path_tuple) ==
    LET file_path == path_tuple[1]
        file_name == path_tuple[2]
    IN  IF IsNewName(file_name, st.paths)
        THEN [paths |-> (file_name :> file_path) @@ st.paths,
              out |-> Append(st.out, path_tuple),
              err |-> NoException]
        ELSE IF st.paths[file_name] # file_path
        THEN [st EXCEPT !.err = NonUniqueFileNameToFilePathMappingException(
                                    file_name, <<st.paths[file_name], file_path>>)]
        ELSE st

RECURSIVE AddlFold(_, _, _)
AddlFold(st, tuples, i) ==
    IF i > Len(tuples) \/ st.err # NoException THEN st
    ELSE AddlFold(AddlStep(st, tuples[i]), tuples, i + 1)

\* the decorator part of _addl_files / path_tuples run to its end or to its raise
DecoTuples(tuples) == AddlFold([paths |-> <<>>, out |-> <<>>, err |-> NoException], tuples, 1)

(***************************************************************************)
(* Package controller: metaflow/package.py, class MetaflowPackage          *)
(***************************************************************************)
Observers == 1..NumObservers

\* wall-clock values of time.time() at build time
Clock == {1700000000, 1700000256}

\* length of the compressed stream behind the ten header bytes
StreamLens == {100, OversizeLimit - 10, OversizeLimit - 9}

\* what the decorators of the controller's flow contribute
CtlContributions ==
    { <<>>,
      << <<"/lib/dep.py", "dep.py">>, <<"/lib/dep.py", "dep.py">> >>,
      << <<"/lib/dep.py", "dep.py">>, <<"/other/dep.py", "dep.py">> >> }

CtlFs ==
    [mtime |-> [p \in {"/lib/dep.py", "/other/dep.py"} |-> 1],
     data |-> [p \in {"/lib/dep.py", "/other/dep.py"} |-> "dep"]]

MetaflowPackageTimeoutError ==
    [kind |-> "MetaflowPackageTimeoutError", msg |-> "timed out"]

\* MetaflowPackageUploadFailed(str(e)), line 131: every caught exception is wrapped alike
MetaflowPackageUploadFailed(e) ==
    [kind |-> "MetaflowPackageUploadFailed", msg |-> e]

\* no wait() has given an outcome yet
NoOutcome == [kind |-> "none", value |-> NoException]

\* the value wait() returns
ReturnsTrue == [kind |-> "bool", msg |-> "True"]

\* self._init_thread.is_alive()
is_alive_always == TRUE
is_alive == pc \notin {"done", "died", "idle"}

\* state after MetaflowPackage.__init__ returns: fields reset, worker started
CtlInit ==
    /\ pc = "init_environment"
    /\ is_package_available = None
    /\ blob = NoValue /\ package_url = None /\ package_sha = None
    /\ exception = NoException
    /\ flow_datastore \in {None, "store"}
    /\ logger \in {None, "callable"}
    /\ nDecos \in 0..MaxDecos
    /\ decoIdx = 1
    /\ curExc = None /\ saved = NoValue /\ logs = <<>> /\ raisedAt = <<>>
    /\ calls = <<>>
    /\ wpc = [o \in Observers |-> "idle"]
    /\ wtimeout = [o \in Observers |-> None]
    /\ wlate = [o \in Observers |-> FALSE]
    /\ waitResult = [o \in Observers |-> [kind |-> "none", value |-> NoException,
                                           avail |-> None, alive |-> TRUE,
                                           late |-> FALSE, prev |-> NoOutcome,
                                           timedout |-> FALSE]]

\* an exception e raised inside the try block reaches "except Exception as e"
Caught(e) ==
    /\ pc' = "except_flag"
    /\ curExc' = e
    /\ raisedAt' = Append(raisedAt, e)

\* a call self.logger(msg): None is not callable; a logger may raise
LoggerOutcomes == IF logger = None THEN {"TypeError"} ELSE {"ok", "raises"}

\* line 114: environment.init_environment(echo)
init_environment ==
    /\ pc = "init_environment"
    /\ \E raises \in BOOLEAN :
         IF raises THEN Caught("init_environment")
         ELSE /\ pc' = IF nDecos > 0 THEN "package_init" ELSE "_create_package"
              /\ UNCHANGED <<curExc, raisedAt>>
    /\ calls' = Append(calls, [op |-> "init_environment", arg |-> 0])
    /\ UNCHANGED <<nonCtl, is_package_available, blob, package_url, package_sha, exception,
                   flow_datastore, logger, nDecos, decoIdx, saved, logs,
                   wpc, wtimeout, wlate, waitResult>>

\* lines 115-117: deco.package_init(flow, step.__name__, environment)
package_init ==
    /\ pc = "package_init"
    /\ \E raises \in BOOLEAN :
         IF raises THEN Caught("package_init") /\ UNCHANGED decoIdx
         ELSE /\ decoIdx' = decoIdx + 1
              /\ pc' = IF decoIdx < nDecos THEN "package_init" ELSE "_create_package"
              /\ UNCHANGED <<curExc, raisedAt>>
    /\ calls' = Append(calls, [op |-> "package_init", arg |-> decoIdx])
    /\ UNCHANGED <<nonCtl, is_package_available, blob, package_url, package_sha, exception,
                   flow_datastore, logger, nDecos, saved, logs,
                   wpc, wtimeout, wlate, waitResult>>

\* line 120: if flow_datastore: the store call, else straight to line 125
AfterBuildSkipsStore == "set_available"
AfterBuild == IF flow_datastore # None THEN "save_data" ELSE "set_available"

\* line 118 with lines 246-272: self.blob = self._create_package()
assign_blob ==
    /\ pc = "_create_package"
    /\ \E contribs \in CtlContributions, now \in Clock, streamLen \in StreamLens,
          lg \in LoggerOutcomes :
         LET pt == DecoTuples(contribs)
             made == _create_package("env", pt.out, CtlFs, now, streamLen, lg)
         IN  IF pt.err # NoException
             THEN Caught("path_tuples") /\ UNCHANGED <<blob, logs>>
             ELSE IF made.raised
             THEN Caught("size_warning") /\ UNCHANGED <<blob, logs>>
             ELSE /\ blob' = made.blob
                  /\ logs' = IF made.warned THEN Append(logs, "size_warning") ELSE logs
                  /\ pc' = AfterBuild
                  /\ UNCHANGED <<curExc, raisedAt>>
    /\ calls' = Append(calls, [op |-> "_create_package", arg |-> 0])
    /\ UNCHANGED <<nonCtl, is_package_available, package_url, package_sha, exception,
                   flow_datastore, logger, nDecos, decoIdx, saved,
                   wpc, wtimeout, wlate, waitResult>>

\* lines 121-123: flow_datastore.save_data([self.blob], len_hint=1)[0]
save_data ==
    /\ pc = "save_data"
    /\ \E raises \in BOOLEAN :
         IF raises THEN Caught("save_data") /\ UNCHANGED saved
         ELSE /\ saved' = <<"url", "sha">>
              /\ pc' = "assign_url"
              /\ UNCHANGED <<curExc, raisedAt>>
    /\ calls' = Append(calls, [op |-> "save_data", arg |-> 0])
    /\ UNCHANGED <<nonCtl, is_package_available, blob, package_url, package_sha, exception,
                   flow_datastore, logger, nDecos, decoIdx, logs,
                   wpc, wtimeout, wlate, waitResult>>

assign_url_only ==
    /\ pc = "assign_url"
    /\ package_url' = saved[1]
    /\ pc' = "set_available"
    /\ UNCHANGED <<nonCtl, calls, is_package_available, blob, package_sha, exception,
                   flow_datastore, logger, nDecos, decoIdx, curExc, saved, logs,
                   raisedAt, wpc, wtimeout, wlate, waitResult>>

\* line 121: the tuple assignment stores package_url first ...
assign_url ==
    /\ pc = "assign_url"
    /\ package_url' = saved[1]
    /\ pc' = "assign_sha"
    /\ UNCHANGED <<nonCtl, calls, is_package_available, blob, package_sha, exception,
                   flow_datastore, logger, nDecos, decoIdx, curExc, saved, logs,
                   raisedAt, wpc, wtimeout, wlate, waitResult>>

\* ... and package_sha second
assign_sha ==
    /\ pc = "assign_sha"
    /\ package_sha' = saved[2]
    /\ pc' = "set_available"
    /\ UNCHANGED <<nonCtl, calls, is_package_available, blob, package_url, exception,
                   flow_datastore, logger, nDecos, decoIdx, curExc, saved, logs,
                   raisedAt, wpc, wtimeout, wlate, waitResult>>

\* line 125: self._is_package_available = True
set_available ==
    /\ pc = "set_available"
    /\ is_package_available' = "True"
    /\ pc' = "log_success"
    /\ UNCHANGED <<nonCtl, calls, blob, package_url, package_sha, exception,
                   flow_datastore, logger, nDecos, decoIdx, curExc, saved, logs,
                   raisedAt, wpc, wtimeout, wlate, waitResult>>

\* lines 126-128: self.logger("Package created and uploaded successfully ...")
\* still inside the try block
log_success ==
    /\ pc = "log_success"
    /\ \E lg \in LoggerOutcomes :
         IF lg = "ok"
         THEN /\ logs' = Append(logs, "success")
              /\ pc' = "done"
              /\ UNCHANGED <<curExc, raisedAt>>
         ELSE Caught("logger") /\ UNCHANGED logs
    /\ UNCHANGED <<nonCtl, calls, is_package_available, blob, package_url, package_sha, exception,
                   flow_datastore, logger, nDecos, decoIdx, saved,
                   wpc, wtimeout, wlate, waitResult>>

\* line 130: self._is_package_available = False
except_flag ==
    /\ pc = "except_flag"
    /\ is_package_available' = "False"
    /\ pc' = "except_store"
    /\ UNCHANGED <<nonCtl, calls, blob, package_url, package_sha, exception,
                   flow_datastore, logger, nDecos, decoIdx, curExc, saved, logs,
                   raisedAt, wpc, wtimeout, wlate, waitResult>>

\* line 131: self.exception = MetaflowPackageUploadFailed(str(e))
except_store ==
    /\ pc = "except_store"
    /\ exception' = MetaflowPackageUploadFailed(curExc)
    /\ pc' = "log_failure"
    /\ UNCHANGED <<nonCtl, calls, is_package_available, blob, package_url, package_sha,
                   flow_datastore, logger, nDecos, decoIdx, curExc, saved, logs,
                   raisedAt, wpc, wtimeout, wlate, waitResult>>

\* lines 132-134: self.logger("Package creation/upload failed ..."), inside the
\* except block: what it raises leaves the thread's target
log_failure ==
    /\ pc = "log_failure"
    /\ \E lg \in LoggerOutcomes :
         IF lg = "ok"
         THEN /\ logs' = Append(logs, "failure")
              /\ pc' = "done"
              /\ UNCHANGED raisedAt
         ELSE /\ pc' = "died"
              /\ raisedAt' = Append(raisedAt, "logger")
              /\ UNCHANGED logs
    /\ UNCHANGED <<nonCtl, calls, is_package_available, blob, package_url, package_sha, exception,
                   flow_datastore, logger, nDecos, decoIdx, curExc, saved,
                   wpc, wtimeout, wlate, waitResult>>

\* what wait() has given: the value returned or the exception raised
Outcome(r) == [kind |-> r.kind, value |-> r.value]

\* the outcome of the last wait() of an observer that began after the worker
\* had ended, once the observer's wait() gives its next outcome
Prev(r) == IF r.late THEN Outcome(r) ELSE r.prev

\* an observer calls wait(timeout): timeout None or a number of seconds
wait_call(o) ==
    /\ wpc[o] = "idle"
    /\ \E t \in {None, "seconds"} : wtimeout' = [wtimeout EXCEPT ![o] = t]
    /\ wlate' = [wlate EXCEPT ![o] = ~is_alive]
    /\ wpc' = [wpc EXCEPT ![o] = "join"]
    /\ UNCHANGED <<nonCtl, calls, pc, is_package_available, blob, package_url, package_sha, exception,
                   flow_datastore, logger, nDecos, decoIdx, curExc, saved, logs,
                   raisedAt, waitResult>>

\* line 293: self._init_thread.join(timeout) returns when the thread has ended
\* or, with a timeout, when the deadline has passed
wait_join(o) ==
    /\ wpc[o] = "join"
    /\ ~is_alive \/ wtimeout[o] # None
    /\ wpc' = [wpc EXCEPT ![o] = "is_alive"]
    /\ UNCHANGED <<nonCtl, calls, pc, is_package_available, blob, package_url, package_sha, exception,
                   flow_datastore, logger, nDecos, decoIdx, curExc, saved, logs,
                   raisedAt, wtimeout, wlate, waitResult>>

wait_is_alive_stores(o) ==
    /\ wpc[o] = "is_alive"
    /\ IF is_alive
       THEN /\ waitResult' = [waitResult EXCEPT ![o] =
                                 [kind |-> "raise", value |-> MetaflowPackageTimeoutError,
                                  avail |-> is_package_available, alive |-> TRUE,
                                  late |-> wlate[o], prev |-> Prev(waitResult[o]),
                                  timedout |-> TRUE]]
            /\ wpc' = [wpc EXCEPT ![o] = "idle"]
            /\ exception' = MetaflowPackageTimeoutError
       ELSE /\ wpc' = [wpc EXCEPT ![o] = "exception"]
            /\ UNCHANGED <<waitResult, exception>>
    /\ UNCHANGED <<nonCtl, calls, pc, is_package_available, blob, package_url, package_sha,
                   flow_datastore, logger, nDecos, decoIdx, curExc, saved, logs,
                   raisedAt, wtimeout, wlate>>

\* lines 294-297: if self._init_thread.is_alive(): raise MetaflowPackageTimeoutError
wait_is_alive(o) ==
    /\ wpc[o] = "is_alive"
    /\ IF is_alive
       THEN /\ waitResult' = [waitResult EXCEPT ![o] =
                                 [kind |-> "raise", value |-> MetaflowPackageTimeoutError,
                                  avail |-> is_package_available, alive |-> TRUE,
                                  late |-> wlate[o], prev |-> Prev(waitResult[o]),
                                  timedout |-> TRUE]]
            /\ wpc' = [wpc EXCEPT ![o] = "idle"]
       ELSE /\ wpc' = [wpc EXCEPT ![o] = "exception"]
            /\ UNCHANGED waitResult
    /\ UNCHANGED <<nonCtl, calls, pc, is_package_available, blob, package_url, package_sha, exception,
                   flow_datastore, logger, nDecos, decoIdx, curExc, saved, logs,
                   raisedAt, wtimeout, wlate>>

\* lines 298-300: if self.exception: raise self.exception; return True
WaitOutcomeForgets(exc) == [kind |-> "return", value |-> ReturnsTrue]
WaitOutcome(exc) ==
    IF exc # NoException THEN [kind |-> "raise", value |-> exc]
    ELSE [kind |-> "return", value |-> ReturnsTrue]

wait_return(o) ==
    /\ wpc[o] = "exception"
    /\ waitResult' = [waitResult EXCEPT ![o] =
                         [kind |-> WaitOutcome(exception).kind,
                          value |-> WaitOutcome(exception).value,
                          avail |-> is_package_available, alive |-> is_alive,
                          late |-> wlate[o], prev |-> Prev(waitResult[o]),
                          timedout |-> waitResult[o].timedout]]
    /\ wpc' = [wpc EXCEPT ![o] = "idle"]
    /\ UNCHANGED <<nonCtl, calls, pc, is_package_available, blob, package_url, package_sha, exception,
                   flow_datastore, logger, nDecos, decoIdx, curExc, saved, logs,
                   raisedAt, wtimeout, wlate>>

Next ==
    \/ init_environment
    \/ package_init
    \/ assign_blob
    \/ save_data
    \/ assign_url
    \/ assign_sha
    \/ set_available
    \/ log_success
    \/ except_flag
    \/ except_store
    \/ log_failure
    \/ \E o \in Observers : wait_call(o)
    \/ \E o \in Observers : wait_join(o)
    \/ \E o \in Observers : wait_is_alive(o)
    \/ \E o \in Observers : wait_return(o)

Init == CtlInit /\ WalkIdle /\ FiltIdle /\ EnvIdle /\ ModIdle /\ AddlIdle /\ BuildIdle
Spec == Init /\ [][Next]_vars

\* the steps of the worker thread, target _prepare_and_upload_package
Worker ==
    \/ init_environment \/ package_init \/ assign_blob \/ save_data
    \/ assign_url \/ assign_sha \/ set_available \/ log_success
    \/ except_flag \/ except_store \/ log_failure

\* the steps of a wait() that has been called
Waiting(o) == wait_join(o) \/ wait_is_alive(o) \/ wait_return(o)

\* threads that can run do run: the worker was started by the constructor, and
\* every collaborator call returns or raises; nobody has to call wait()
FairSpec ==
    /\ Spec
    /\ WF_vars(Worker)
    /\ \A o \in Observers : WF_vars(Waiting(o))

(***************************************************************************)
(* Properties of the package controller                                    *)
(***************************************************************************)
\* the calls whose failure is a failure of initialization, aggregation or build
BuildStages == {"init_environment", "package_init", "path_tuples", "size_warning"}

\* C1: every wait(timeout) returns True only if the controller is Available
\* when it returns, raises the stored exception only if the controller is
\* Failed, and raises MetaflowPackageTimeoutError exactly when the controller
\* is still Pending (is_package_available is None) at the deadline.
C1_WaitOutcomeMatchesState ==
    \A o \in Observers :
        LET r == waitResult[o] IN
        r.kind # "none" =>
            /\ (r.kind = "return" => r.avail = "True")
            /\ (r.kind = "raise" /\ r.value.kind = "MetaflowPackageUploadFailed"
                    => r.avail = "False")
            /\ (r.value = MetaflowPackageTimeoutError <=> r.avail = None)

\* C2: is_package_available starts as None and changes at most once: once it
\* is True or False it never changes again.
C2_AvailabilityChangesAtMostOnce ==
    [][is_package_available # None => is_package_available' = is_package_available]_vars

\* C3: if init_environment, every package_init, package creation and save_data
\* all complete without raising, the controller ends in Available, no exception
\* is stored and wait() returns True, for every combination of datastore and
\* logger the constructor accepts, including its defaults.
C3_SuccessEndsAvailable ==
    (~is_alive /\ \A i \in 1..Len(raisedAt) : raisedAt[i] \notin BuildStages \cup {"save_data"})
        => /\ is_package_available = "True"
           /\ exception = NoException
           /\ \A o \in Observers :
                  waitResult[o].kind # "none" /\ ~waitResult[o].alive
                      => waitResult[o].value = ReturnsTrue

\* C5: an exception raised by init_environment, a package_init hook, file
\* aggregation or archive building is captured on the worker: the worker thread
\* ends without an exception propagating out of it and the controller becomes
\* Failed with the exception stored.
C5_FailureCapturedOnWorker ==
    (raisedAt # <<>> /\ raisedAt[1] \in BuildStages)
        => /\ pc # "died"
           /\ (pc = "done" => is_package_available = "False" /\ exception # NoException)

\* C6: a failure of the store call is surfaced by wait() as an error kind
\* distinct from the one surfaced for a failure during initialization,
\* aggregation or build.
C6_StoreFailureKindDistinct ==
    \A o \in Observers :
        LET r == waitResult[o] IN
        (r.kind = "raise" /\ r.value # MetaflowPackageTimeoutError /\ r.value.msg \in BuildStages)
            => r.value.kind # MetaflowPackageUploadFailed("save_data").kind

\* number of calls of op the worker has made
TimesCalled(op) == Cardinality({i \in DOMAIN calls : calls[i].op = op})

Controller ==
    <<pc, calls, is_package_available, blob, package_url, package_sha, exception,
      saved, logs, raisedAt, decoIdx, curExc>>

\* C17: a wait(timeout) that raises MetaflowPackageTimeoutError changes no
\* controller state and neither stops nor restarts the worker; a wait() that
\* begins after the worker has completed without error returns True also
\* when an earlier wait of the observer timed out.
C17_TimeoutLeavesControllerAlone ==
    /\ [][\A o \in Observers :
             (waitResult'[o] # waitResult[o]
              /\ waitResult'[o].value = MetaflowPackageTimeoutError)
                 => UNCHANGED Controller]_vars
    /\ [](\A o \in Observers :
             (waitResult[o].timedout /\ waitResult[o].late /\ pc = "done"
              /\ is_package_available = "True")
                 => waitResult[o].kind = "return")

\* a wait timed out while the worker was building; the worker then completed
\* and a later wait of the same observer returned True
C17_Witness ==
    \E o \in Observers :
        /\ waitResult[o].timedout
        /\ waitResult[o].late
        /\ waitResult[o].kind = "return"
        /\ is_package_available = "True"
        /\ TimesCalled("_create_package") = 1

\* positions of the calls of op in the worker's call history
Idx(op) == {i \in DOMAIN calls : calls[i].op = op}

\* init_environment first and once, package_init at most once per decorator
\* and for every decorator before package creation starts, save_data only
\* after the blob has been built
CallOrder ==
    /\ pc # "init_environment" => calls # <<>>
    /\ calls # <<>> => calls[1].op = "init_environment"
    /\ TimesCalled("init_environment") <= 1
    /\ \A d \in 1..nDecos :
           Cardinality({i \in Idx("package_init") : calls[i].arg = d}) <= 1
    /\ \A i \in Idx("package_init") : calls[i].arg \in 1..nDecos
    /\ \A k \in Idx("_create_package") :
           /\ \A i \in Idx("package_init") : i < k
           /\ \A d \in 1..nDecos : \E i \in Idx("package_init") : calls[i].arg = d
    /\ \A i \in Idx("save_data") :
           /\ blob # NoValue
           /\ \E k \in Idx("_create_package") : k < i

\* C18 as stated: in every run of the pipeline init_environment is called
\* exactly once and before any package_init, package_init once for each
\* decorator and before package creation starts, save_data only after the
\* blob has been built, and the controller becomes Available only after
\* save_data has returned.
C18_AvailableOnlyAfterSaveData ==
    /\ CallOrder
    /\ is_package_available = "True" => (Idx("save_data") # {} /\ saved # NoValue)

\* C18, amended: the same order of calls; when a datastore was supplied the
\* controller becomes Available only after save_data has returned, and when
\* none was supplied save_data is never called and the controller becomes
\* Available once the blob has been built.
C18_AvailableAfterSaveDataIfStore ==
    /\ CallOrder
    /\ (is_package_available = "True" /\ flow_datastore # None)
           => (Idx("save_data") # {} /\ saved # NoValue)
    /\ flow_datastore = None => Idx("save_data") = {}
    /\ is_package_available = "True" => blob # NoValue

\* a flow with two decorators and a datastore has become Available
C18_Witness ==
    /\ is_package_available = "True"
    /\ flow_datastore # None
    /\ nDecos >= 2
    /\ TimesCalled("package_init") = nDecos
    /\ saved # NoValue

\* C19: package_url and package_sha are None in every state before save_data
\* has returned, are assigned at most once, stay None when no datastore was
\* supplied or when the store fails, and are both set whenever the
\* controller is Available with a datastore supplied; the blob is assigned at
\* most once.
C19_UrlAndShaOnlyAfterStore ==
    /\ [](/\ saved = NoValue => (package_url = None /\ package_sha = None)
          /\ flow_datastore = None => (package_url = None /\ package_sha = None)
          /\ (\E i \in DOMAIN raisedAt : raisedAt[i] = "save_data")
                 => (package_url = None /\ package_sha = None)
          /\ (is_package_available = "True" /\ flow_datastore # None)
                 => (package_url # None /\ package_sha # None))
    /\ [][/\ package_url # None => package_url' = package_url
          /\ package_sha # None => package_sha' = package_sha
          /\ blob # NoValue => blob' = blob]_vars

\* the store returned and the controller is Available with both fields set
C19_Witness ==
    /\ is_package_available = "True"
    /\ flow_datastore # None
    /\ package_url = "url" /\ package_sha = "sha"
    /\ blob # NoValue
    /\ pc = "done"

\* C21: when the built blob is larger than 100 MiB the build still returns
\* the blob and the controller still reaches Available; the oversize check
\* never makes the build fail, with or without a logger supplied.
C21_OversizeOnlyWarns ==
    /\ \A i \in DOMAIN raisedAt : raisedAt[i] # "size_warning"
    /\ Cardinality({i \in DOMAIN logs : logs[i] = "size_warning"}) <= 1

\* C26: the worker eventually leaves Pending and ends in Available or Failed,
\* whether or not anyone calls wait(), and a wait() without a timeout
\* eventually returns or raises.
C26_WorkerAndWaitTerminate ==
    /\ <>[](pc \in {"done", "died"} /\ is_package_available \in {"True", "False"})
    /\ \A o \in Observers :
           (wpc[o] = "join" /\ wtimeout[o] = None) ~> (wpc[o] = "idle")

\* the worker has ended although nobody has ever called wait()
C26_Witness ==
    /\ pc \in {"done", "died"}
    /\ is_package_available \in {"True", "False"}
    /\ \A o \in Observers : wpc[o] = "idle" /\ waitResult[o].kind = "none"

\* C28: at every interleaving of an observer with the worker, when the
\* observer reads is_package_available as False the stored exception is
\* already set, and when it reads True the blob is already set.
C28_FlagImpliesItsData ==
    /\ is_package_available = "False" => exception # NoException
    /\ is_package_available = "True" => blob # NoValue

(***************************************************************************)
(* Cycle-safe tree walker                                                  *)
(*   metaflow/package/mfenv.py: MFEnv.walk_without_cycles                  *)
(*   metaflow/package.py: walk_without_cycles                              *)
(*                                                                         *)
(* The tree: real directories 0..NumDirs-1, directory 0 is top_root and    *)
(* directory d > 0 lies in directory (d-1) \div 2.  A real directory may   *)
(* hold symlinks to directories: links[d] lists, in the order os.walk      *)
(* gives them, what os.path.realpath gives for each.  Directory 1 holds up *)
(* to two symlinks (sibling links, as in the comment of _recurse), every   *)
(* other directory up to one.  A path is the sequence of entry names below *)
(* top_root: a real directory's name is its number, LinkEntry(k) is the    *)
(* name of the k-th symlink of a directory.                                *)
(***************************************************************************)
Dirs == 0..(NumDirs - 1)
Root == 0
LinkEntry(k) == NumDirs + k
LinkLists(d) ==
    {<<>>} \cup {<<t>> : t \in Dirs}
           \cup (IF d = 1 THEN {<<t, u>> : t \in Dirs, u \in Dirs} ELSE {})
Parent(d) == (d - 1) \div 2
SubDirs(d) == {c \in Dirs : c > 0 /\ Parent(c) = d}

RECURSIVE SortedSeq(_)
SortedSeq(S) ==
    IF S = {} THEN <<>>
    ELSE LET m == CHOOSE x \in S : \A y \in S : x <= y
         IN  <<m>> \o SortedSeq(S \ {m})

\* the directories os.walk(top) reaches from d without following symlinks
RECURSIVE Subtree(_)
Subtree(d) == {d} \cup UNION {Subtree(c) : c \in SubDirs(d)}

\* a running generator _recurse(root): the directories os.walk still has to
\* list, the (parent, dirs, files) triple of the current iteration, and the
\* symlinked entries of dirs not yet examined
NewFrame(path, real) ==
    [todo |-> << <<path, real>> >>, cur |-> NoValue, dirs |-> <<>>]

Top == stack[Len(stack)]
SetTop(f) == [stack EXCEPT ![Len(stack)] = f]

WalkInit ==
    /\ links \in {l \in [Dirs -> UNION {LinkLists(d) : d \in Dirs}] :
                      \A d \in Dirs : l[d] \in LinkLists(d)}
    /\ stack = <<NewFrame(<<>>, Root)>>
    /\ seen = {}
    /\ yields = <<>>

\* "if reallink not in seen"
NotSeenAlways(reallink, s) == TRUE
NotSeen(reallink, s) == reallink \notin s

\* "seen.add(reallink)"
SeenAddForgets(s, reallink) == s
SeenAdd(s, reallink) == s \cup {reallink}

\* "for parent, dirs, files in os.walk(root)": os.walk lists the next directory,
\* top-down, and will later descend into its subdirectories that are no symlinks
os_walk_next ==
    /\ stack # <<>>
    /\ Top.cur = NoValue
    /\ Top.todo # <<>>
    /\ LET here == Head(Top.todo)
           sub == SortedSeq(SubDirs(here[2]))
       IN  stack' = SetTop(
                [todo |-> [i \in 1..Len(sub) |-> <<Append(here[1], sub[i]), sub[i]>>]
                          \o Tail(Top.todo),
                 cur |-> here,
                 dirs |-> [k \in 1..Len(links[here[2]]) |->
                              <<LinkEntry(k), links[here[2]][k]>>]])
    /\ UNCHANGED <<nonWalk, links, seen, yields>>

\* "for d in dirs: if os.path.islink(path)": one symlinked entry is examined;
\* an unseen target is recorded and walked by a nested _recurse(path)
follow_link ==
    /\ stack # <<>>
    /\ Top.cur # NoValue
    /\ Top.dirs # <<>>
    /\ LET reallink == Head(Top.dirs)[2]
           path == Append(Top.cur[1], Head(Top.dirs)[1])
           rest == [Top EXCEPT !.dirs = Tail(Top.dirs)]
       IN  IF NotSeen(reallink, seen)
           THEN /\ Len(stack) < MaxDepth
                /\ seen' = SeenAdd(seen, reallink)
                /\ stack' = Append(SetTop(rest), NewFrame(path, reallink))
           ELSE /\ stack' = SetTop(rest)
                /\ UNCHANGED seen
    /\ UNCHANGED <<nonWalk, links, yields>>

\* "yield parent, files", after every entry of dirs has been examined
yield_parent ==
    /\ stack # <<>>
    /\ Top.cur # NoValue
    /\ Top.dirs = <<>>
    /\ yields' = Append(yields, Top.cur)
    /\ stack' = SetTop([Top EXCEPT !.cur = NoValue])
    /\ UNCHANGED <<nonWalk, links, seen>>

\* os.walk(root) is exhausted: this _recurse returns to the one that called it
recurse_return ==
    /\ stack # <<>>
    /\ Top.cur = NoValue
    /\ Top.todo = <<>>
    /\ stack' = SubSeq(stack, 1, Len(stack) - 1)
    /\ UNCHANGED <<nonWalk, links, seen, yields>>

WalkNext ==
    \/ os_walk_next
    \/ follow_link
    \/ yield_parent
    \/ recurse_return

WalkSpecInit == CtlIdle /\ WalkInit /\ FiltIdle /\ EnvIdle /\ ModIdle /\ AddlIdle /\ BuildIdle
WalkSpec == WalkSpecInit /\ [][WalkNext]_vars

\* the generator is driven to exhaustion by its consumer ("for x in ...")
FairWalkSpec == WalkSpec /\ WF_vars(WalkNext)

(***************************************************************************)
(* Properties of the tree walker                                           *)
(***************************************************************************)
WalkDone == links # <<>> /\ stack = <<>>

\* the tree of the specification's example: a/link -> b, b/link -> a
SymlinkCycle == links # <<>> /\ links[1] = <<2>> /\ links[2] = <<1>>

\* no other directory holds a symlink
OnlyTheCycle == \A d \in Dirs \ {1, 2} : links[d] = <<>>

\* number of times the real directory d has been yielded
TimesYielded(d) == Cardinality({i \in 1..Len(yields) : yields[i][2] = d})

\* C7: walk_without_cycles terminates on every finite directory tree,
\* including trees whose symlinks form a cycle, point to an ancestor or alias
\* the same target repeatedly.
C7_WalkTerminates == <>WalkDone

C7_Witness ==
    /\ WalkDone
    /\ SymlinkCycle
    /\ links[Root] = <<1>>
    /\ Len(yields) > NumDirs

\* C8 as stated: after walking a tree with the symlink cycle, each real
\* directory has been yielded exactly once.
C8_EachRealDirectoryOnce ==
    (WalkDone /\ SymlinkCycle) => \A d \in Dirs : TimesYielded(d) = 1

\* C8 as amended: each real directory is yielded once under its own path and
\* once more for every followed symlink whose target is that directory or one
\* of its ancestors, and no path is yielded twice; with the cycle alone, a and
\* b are each yielded exactly twice.
C8_EachRealDirectoryPerEntry ==
    WalkDone =>
        /\ \A d \in Dirs :
               TimesYielded(d) = 1 + Cardinality({t \in seen : d \in Subtree(t)})
        /\ \A i, j \in 1..Len(yields) : yields[i][1] = yields[j][1] => i = j
        /\ (SymlinkCycle /\ OnlyTheCycle
               => TimesYielded(1) = 2 /\ TimesYielded(2) = 2 /\ TimesYielded(Root) = 1)

C8_Witness ==
    /\ WalkDone
    /\ SymlinkCycle
    /\ OnlyTheCycle
    /\ TimesYielded(1) = 2

\* the yields made for the root of a followed symlink: the path ends with
\* the name of a symlink
FollowedYields ==
    {i \in DOMAIN yields :
        Len(yields[i][1]) > 0 /\ yields[i][1][Len(yields[i][1])] >= NumDirs}

\* C24: during one walk a symlinked subdirectory is descended into only if
\* its resolved real path is not yet in the visited set, and the path is
\* recorded before descending; so for each resolved target at most one symlink
\* pointing to it is followed and a recorded target is never entered again.
C24_EachTargetFollowedOnce ==
    /\ [](/\ \A i, j \in FollowedYields : yields[i][2] = yields[j][2] => i = j
          /\ \A i \in FollowedYields : yields[i][2] \in seen
          /\ \A k \in 2..Len(stack) : \A l \in 2..Len(stack) :
                 (stack[k].cur # NoValue /\ stack[l].cur # NoValue /\ k # l
                  /\ stack[k].cur[1][Len(stack[k].cur[1])] >= NumDirs
                  /\ stack[l].cur[1][Len(stack[l].cur[1])] >= NumDirs)
                     => stack[k].cur[2] # stack[l].cur[2])
    /\ [][/\ seen \subseteq seen'
          /\ Len(stack') > Len(stack)
                 => LET entered == stack'[Len(stack')].todo[1][2]
                    IN  /\ entered \notin seen
                        /\ seen' = seen \cup {entered}
          /\ Len(stack') <= Len(stack) => seen' = seen]_vars

\* directory 1 holds two symlinks to directory 2: the walk is over and only
\* the first of them was followed
C24_Witness ==
    /\ WalkDone
    /\ links[1] = <<2, 2>>
    /\ links[Root] = <<>> /\ links[2] = <<>>
    /\ \E i \in FollowedYields : yields[i] = <<<<1, LinkEntry(1)>>, 2>>
    /\ ~\E i \in FollowedYields : yields[i][1] = <<1, LinkEntry(2)>>

(***************************************************************************)
(* The filter over the walk                                                *)
(*   metaflow/package/mfenv.py: MFEnv.walk                                 *)
(*   metaflow/package.py: MetaflowPackage._walk                            *)
(*                                                                         *)
(* walk works on path strings: it measures a prefix by its length, looks   *)
(* for the substring "/." and slices.  A path string is the sequence of    *)
(* its characters here.                                                    *)
(***************************************************************************)
\* s[n:]
Drop(s, n) == SubSeq(s, n + 1, Len(s))

\* s.startswith(pre), s.endswith(suf), sub in s
startswith(s, pre) == Len(pre) <= Len(s) /\ SubSeq(s, 1, Len(pre)) = pre
endswith(s, suf) == Len(suf) <= Len(s) /\ SubSeq(s, Len(s) - Len(suf) + 1, Len(s)) = suf
Contains(sub, s) ==
    \E i \in 1..(Len(s) - Len(sub) + 1) : SubSeq(s, i, i + Len(sub) - 1) = sub

\* s.rstrip("/")
RECURSIVE rstrip(_)
rstrip(s) == IF s # <<>> /\ s[Len(s)] = "/" THEN rstrip(SubSeq(s, 1, Len(s) - 1)) ELSE s

\* posixpath.dirname(p): everything up to the last "/", without trailing
\* slashes unless it consists of slashes only
os_path_dirname(p) ==
    LET slashes == {i \in DOMAIN p : p[i] = "/"}
        i == IF slashes = {} THEN 0 ELSE CHOOSE k \in slashes : \A j \in slashes : j <= k
        head == SubSeq(p, 1, i)
    IN  IF rstrip(head) # <<>> THEN rstrip(head) ELSE head

\* posixpath.join(a, b) on path strings
join(a, b) ==
    IF startswith(b, <<"/">>) THEN b
    ELSE IF a = <<>> \/ a[Len(a)] = "/" THEN a \o b
    ELSE a \o <<"/">> \o b

\* the test on a file name: a dotfile must be in suffixes, any other name must
\* end with one of them
SuffixOk(fname, suffixes) ==
    \/ fname[1] = "." /\ fname \in suffixes
    \/ fname[1] # "." /\ \E suffix \in suffixes : endswith(fname, suffix)

\* walk(root, exclude_hidden, suffixes): listing is what walk_without_cycles(root)
\* yields, a set of (path, files)
walk(root, exclude_hidden, suffixes, listing) ==
    LET prefixlen == Len(os_path_dirname(root) \o <<"/">>)
        kept == {d \in listing : ~(exclude_hidden /\ Contains(<<"/", ".">>, d.path))}
    IN  UNION {{<<join(d.path, fname), Drop(join(d.path, fname), prefixlen)>>
                   : fname \in {f \in d.files : SuffixOk(f, suffixes)}}
               : d \in kept}

\* the roots walk is called with: /h/p, /h/p/ (the flow directory is passed
\* with a trailing slash), /.h/p, /p and the relative p
FiltRoots ==
    { <<"/", "h", "/", "p">>, <<"/", "h", "/", "p", "/">>, <<"/", ".", "h", "/", "p">>,
      <<"/", "p">>, <<"p">> }

\* file names and suffix lists
FiltRootFiles == {<<"a", ".", "p", "y">>, <<".", "e", "n", "v">>}
FiltSuffixes == {<<".", "p", "y">>, <<".", "e", "n", "v">>}

\* os.walk below root: root itself, the directory s and the hidden directory .g
Listing(root, rootfiles) ==
    { [path |-> root, files |-> rootfiles],
      [path |-> join(root, <<"s">>), files |-> {<<"c", ".", "p", "y">>, <<"d", ".", "m", "d">>}],
      [path |-> join(root, <<".", "g">>), files |-> {<<"e", ".", "p", "y">>}] }

FiltInit ==
    /\ \E root \in FiltRoots, exclude_hidden \in BOOLEAN,
          suffixes \in SUBSET FiltSuffixes, rootfiles \in SUBSET FiltRootFiles :
           filtInput = [root |-> root, exclude_hidden |-> exclude_hidden,
                        suffixes |-> suffixes, listing |-> Listing(root, rootfiles)]
    /\ filtOutput = [called |-> FALSE, yielded |-> {}]

\* the generator is consumed to its end
walk_call ==
    /\ filtInput.root # <<>>
    /\ ~filtOutput.called
    /\ filtOutput' = [called |-> TRUE,
                      yielded |-> walk(filtInput.root, filtInput.exclude_hidden,
                                       filtInput.suffixes, filtInput.listing)]
    /\ UNCHANGED <<nonFilt, filtInput>>

FiltNext ==
    \/ walk_call

FiltSpecInit == CtlIdle /\ WalkIdle /\ FiltInit /\ EnvIdle /\ ModIdle /\ AddlIdle /\ BuildIdle
FiltSpec == FiltSpecInit /\ [][FiltNext]_vars

(***************************************************************************)
(* The user tree                                                           *)
(*   metaflow/package/__init__.py: MetaflowPackage.__init__,               *)
(*                                 _user_code_tuples                       *)
(*   metaflow/package.py: MetaflowPackage.__init__, path_tuples            *)
(***************************************************************************)
\* DEFAULT_SUFFIXES_LIST = DEFAULT_PACKAGE_SUFFIXES.split(","); the configured
\* default of metaflow_config is ".py,.R,.RDS"
DEFAULT_SUFFIXES_LIST == {<<".", "p", "y">>, <<".", "R">>, <<".", "R", "D", "S">>}

\* self.suffixes = list(set().union(suffixes, DEFAULT_SUFFIXES_LIST))
SuffixesOfCallerOnly(suffixes) == suffixes
SelfSuffixes(suffixes) == suffixes \cup DEFAULT_SUFFIXES_LIST

\* what the caller may pass as suffixes, the directories os.path.abspath can
\* give for the flow file, and the files of the flow directory
CallerSuffixes == {<<".", "b", "i", "n">>, <<".", "e", "n", "v">>, <<".", "m", "d">>}
FlowDirs == { <<"/", "h", "/", "p">>, <<"/", ".", "h", "/", "p">>, <<"/", "p">> }
FlowPy == <<"f", "l", "o", "w", ".", "p", "y">>
DataBin == <<"d", "a", "t", "a", ".", "b", "i", "n">>
FlowDirFiles == {FlowPy, DataBin, <<".", "e", "n", "v">>}

UserInit ==
    /\ \E dir \in FlowDirs, suffixes \in SUBSET CallerSuffixes,
          rootfiles \in SUBSET FlowDirFiles :
           filtInput = [argv0dir |-> dir, suffixes |-> suffixes, rootfiles |-> rootfiles]
    /\ filtOutput = [called |-> FALSE, yielded |-> {}]

\* _user_code_tuples without R: flowdir = os.path.dirname(os.path.abspath(
\* sys.argv[0])) + "/", then walk(flowdir, suffixes=self.suffixes)
_user_code_tuples ==
    /\ "argv0dir" \in DOMAIN filtInput
    /\ ~filtOutput.called
    /\ LET flowdir == filtInput.argv0dir \o <<"/">>
           self_suffixes == SelfSuffixes(filtInput.suffixes)
       IN  filtOutput' = [called |-> TRUE,
                          flowdir |-> flowdir,
                          suffixes |-> self_suffixes,
                          listing |-> Listing(flowdir, filtInput.rootfiles),
                          yielded |-> walk(flowdir, TRUE, self_suffixes,
                                           Listing(flowdir, filtInput.rootfiles))]
    /\ UNCHANGED <<nonFilt, filtInput>>

UserNext ==
    \/ _user_code_tuples

UserSpecInit == CtlIdle /\ WalkIdle /\ UserInit /\ EnvIdle /\ ModIdle /\ AddlIdle /\ BuildIdle
UserSpec == UserSpecInit /\ [][UserNext]_vars

(***************************************************************************)
(* Properties of the filter                                                *)
(***************************************************************************)
\* the segments of a path string
RECURSIVE Segments(_)
Segments(p) ==
    IF p = <<>> THEN <<>>
    ELSE IF p[1] = "/" THEN Segments(Tail(p))
    ELSE LET slashes == {i \in DOMAIN p : p[i] = "/"}
             n == IF slashes = {} THEN Len(p) + 1
                  ELSE CHOOSE k \in slashes : \A j \in slashes : k <= j
         IN  <<SubSeq(p, 1, n - 1)>> \o Segments(Drop(p, n - 1))

\* some directory segment of the file's path begins with "."
HiddenDirSegment(p) ==
    \E i \in 1..(Len(Segments(p)) - 1) : Segments(p)[i][1] = "."

\* s.lstrip("/")
RECURSIVE lstrip(_)
lstrip(s) == IF s # <<>> /\ s[1] = "/" THEN lstrip(Tail(s)) ELSE s

\* the path p with the parent directory of root stripped
StripParent(p, root) == lstrip(Drop(p, Len(os_path_dirname(root))))

\* C20: walk(root, exclude_hidden, suffixes) yields a file exactly when (a)
\* exclude_hidden is off or no directory segment of the file's path begins
\* with ".", and (b) its name passes the allowlist; each yielded archive path
\* is the file's path with the parent of root stripped.
C20_WalkYieldsFilteredFiles ==
    filtOutput.called =>
        /\ \A d \in filtInput.listing : \A fname \in d.files :
               LET p == join(d.path, fname) IN
               (\E y \in filtOutput.yielded : y[1] = p)
                   <=> /\ ~filtInput.exclude_hidden \/ ~HiddenDirSegment(p)
                       /\ SuffixOk(fname, filtInput.suffixes)
        /\ \A y \in filtOutput.yielded : y[2] = StripParent(y[1], filtInput.root)

\* the archive-relative paths of a set of (path, archive path) pairs
ArchivePaths(yielded) == {y[2] : y \in yielded}

\* the files listed for root itself
RootFiles(root, listing) == UNION {d.files : d \in {e \in listing : e.path = root}}

\* C27: the files yielded by walk(root, exclude_hidden=True, suffixes) depend
\* only on the tree at and below root: the tree under /.h/p yields the same
\* archive-relative paths as the identical tree under /h/p.
C27_WalkIgnoresAncestors ==
    (/\ filtOutput.called
     /\ filtInput.exclude_hidden
     /\ filtInput.root = <<"/", ".", "h", "/", "p">>)
        => ArchivePaths(filtOutput.yielded)
               = ArchivePaths(walk(<<"/", "h", "/", "p">>, TRUE, filtInput.suffixes,
                                   Listing(<<"/", "h", "/", "p">>,
                                           RootFiles(filtInput.root, filtInput.listing))))

\* the file named fname of the flow directory itself is in what was yielded
UserFileArchived(fname) ==
    \E y \in filtOutput.yielded : y[1] = join(filtOutput.flowdir, fname)

\* C25: the allowlist used for the user tree is the union of the caller's
\* suffix list and the built-in default list, and a user-tree file in a
\* non-hidden directory is archived exactly when its name passes this
\* allowlist: flow.py is included, data.bin is not.
C25_UserTreeAllowlist ==
    filtOutput.called =>
        /\ filtOutput.suffixes = filtInput.suffixes \cup DEFAULT_SUFFIXES_LIST
        /\ \A d \in filtOutput.listing : \A fname \in d.files :
               LET p == join(d.path, fname) IN
               ~HiddenDirSegment(p) =>
                   ((\E y \in filtOutput.yielded : y[1] = p)
                       <=> \/ fname[1] = "." /\ fname \in filtOutput.suffixes
                           \/ fname[1] # "." /\ \E suffix \in filtOutput.suffixes :
                                                    endswith(fname, suffix))
        /\ (FlowPy \in filtInput.rootfiles /\ ~HiddenDirSegment(filtOutput.flowdir \o FlowPy))
               => UserFileArchived(FlowPy)
        /\ <<".", "b", "i", "n">> \notin filtInput.suffixes => ~UserFileArchived(DataBin)

\* the caller passes only ".md": flow.py, which passes by a default suffix,
\* and d.md, which passes by the caller's, are archived, data.bin is not
C25_Witness ==
    /\ filtOutput.called
    /\ filtInput.suffixes = {<<".", "m", "d">>}
    /\ filtInput.rootfiles = FlowDirFiles
    /\ filtInput.argv0dir = <<"/", "h", "/", "p">>
    /\ UserFileArchived(FlowPy)
    /\ ~UserFileArchived(DataBin)
    /\ \E y \in filtOutput.yielded : y[2] = <<"s", "/", "d", ".", "m", "d">>

(***************************************************************************)
(* MFEnv file aggregator: metaflow/package/mfenv.py, class MFEnv           *)
(*                                                                         *)
(* A path in the archive is the sequence of its segments; an absolute path *)
(* starts with the segment "/".  A path on the filesystem is a string.     *)
(***************************************************************************)
MFENV_DIR == <<".mfenv">>

\* os.path.join(a, b): an absolute b discards a
os_path_join(a, b) == IF b # <<>> /\ b[1] = "/" THEN b ELSE a \o b

\* os.path.realpath on the files of the model: /l/foo.py is a symlink to /x/foo.py
realpath(path) == IF path = "/l/foo.py" THEN "/x/foo.py" ELSE path

\* the modules sys.modules can hold that satisfy the criteria; no installed
\* distribution provides them, so modules_to_distributions().get(name) is None.
\* root_paths is the resolved __path__; m3 is a single-file module (no __path__)
ModuleNames == {"m1", "m2", "m3"}
ModuleRootPaths(name) ==
    CASE name = "m1" -> {"/site/m1"}
      [] name = "m2" -> {"/site/m2"}
      [] OTHER -> {}

\* os.walk(path) below a module root or a directory: each file with its path
\* relative to the root and whether its name ends with one of EXT_EXCLUDE_SUFFIXES
TreeFiles(root) ==
    CASE root = "/site/m1" ->
            { [src |-> "/site/m1/__init__.py", rel |-> <<"__init__.py">>, excluded |-> FALSE],
              [src |-> "/site/m1/core.py", rel |-> <<"core.py">>, excluded |-> FALSE] }
      [] root = "/site/m2" ->
            { [src |-> "/site/m2/util.py", rel |-> <<"util.py">>, excluded |-> FALSE],
              [src |-> "/site/m2/util.pyc", rel |-> <<"util.pyc">>, excluded |-> TRUE] }
      [] root = "/proj/pkg" ->
            { [src |-> "/proj/pkg/a.py", rel |-> <<"a.py">>, excluded |-> FALSE],
              [src |-> "/proj/pkg/a.pyc", rel |-> <<"a.pyc">>, excluded |-> TRUE],
              [src |-> "/proj/pkg/sub/foo.py", rel |-> <<"sub", "foo.py">>, excluded |-> FALSE] }
      [] OTHER -> {}

\* os.path.join(self._metaflow_root, "metaflow", "extension_support", "_empty_file.py")
EmptyFile == "/mf/metaflow/extension_support/_empty_file.py"

\* dict.update(pairs): later pairs replace earlier ones with the same key
RECURSIVE DictUpdate(_, _)
DictUpdate(d, pairs) ==
    IF pairs = <<>> THEN d
    ELSE DictUpdate((pairs[1][1] :> pairs[1][2]) @@ d, Tail(pairs))

RECURSIVE SetToSeq(_)
SetToSeq(S) ==
    IF S = {} THEN <<>>
    ELSE LET x == CHOOSE y \in S : TRUE IN <<x>> \o SetToSeq(S \ {x})

\* Python values of different types are never equal: a str and a pathlib
\* object naming the same path are different members of a set
PyStr(s) == [type |-> "str", value |-> s]
PyPath(s) == [type |-> "PosixPath", value |-> s]

\* os.path.basename of the root paths that are single files
basename(path) == IF path = "/site/a.py" THEN <<"a.py">> ELSE <<path>>

\* one iteration of "for dist in distributions" in _module_files.  dist.Name is
\* dist.metadata["Name"], dist.locate_file the place dist.locate_file(name)
\* points to, a pathlib path; dist.files are PackagePath objects, which have
\* no startswith
DistStep(st, dist) ==
    IF st.raised # None \/ dist.Name \in st.seen_distributions THEN st
    ELSE LET dist_root == PyPath(dist.locate_file)
             st1 == [st EXCEPT !.seen_distributions = @ \cup {dist.Name}]
         IN  IF dist_root \notin st1.paths
             THEN [st1 EXCEPT !.raised = "RuntimeError"]
             ELSE LET st2 == [st1 EXCEPT !.paths = @ \ {dist_root},
                                         !._metainfo = @ \cup {dist.Name}]
                  IN  IF dist.files # <<>>
                      THEN [st2 EXCEPT !.raised = "AttributeError"]
                      ELSE st2

RECURSIVE DistFold(_, _)
DistFold(st, distributions) ==
    IF distributions = <<>> THEN st
    ELSE DistFold(DistStep(st, distributions[1]), Tail(distributions))

\* rel_path == "__init__.py" for some walked file
HasInitNever(found) == FALSE
HasInit(found) == \E f \in found : f.rel = <<"__init__.py">>

\* _module_files(name, paths): distributions is modules_to_distributions().get(name)
\* (<<>> for None), tree the files os.walk finds below each path that is a
\* directory.  The result is what the generator yields, in order, and what
\* it raises.
_module_files(name, paths, distributions, tree) ==
    LET st0 == [paths |-> {PyStr(p) : p \in paths}, seen_distributions |-> {},
                _metainfo |-> {}, raised |-> None]
        st == DistFold(st0, distributions)
        left == {p.value : p \in st.paths}
        single == SetToSeq({<<p, os_path_join(MFENV_DIR, basename(p))>>
                               : p \in left \ DOMAIN tree})
        found == UNION {{f \in tree[p] : ~f.excluded} : p \in left \cap DOMAIN tree}
        walked == SetToSeq({<<f.src, os_path_join(os_path_join(MFENV_DIR, <<name>>), f.rel)>>
                               : f \in found})
        marker == <<EmptyFile,
                    os_path_join(os_path_join(MFENV_DIR, <<name>>), <<"__init__.py">>)>>
    IN  IF st.raised # None THEN [emitted |-> <<>>, raised |-> st.raised]
        ELSE [emitted |-> single \o walked \o (IF HasInit(found) THEN <<>> ELSE <<marker>>),
              raised |-> None]

\* _metaflow_distribution_files(): walk(<root>/metaflow, suffixes .py .html .css .js);
\* the tree below <root>/metaflow holds extension_support/_empty_file.py, the
\* file _module_files names as the source of the empty __init__.py
_metaflow_distribution_files ==
    << <<"/mf/metaflow/__init__.py", os_path_join(MFENV_DIR, <<"metaflow", "__init__.py">>)>>,
       <<"/mf/metaflow/package.py", os_path_join(MFENV_DIR, <<"metaflow", "package.py">>)>>,
       <<EmptyFile,
         os_path_join(MFENV_DIR, <<"metaflow", "extension_support", "_empty_file.py">>)>> >>

\* _metaflow_extension_files(): what package_mfext_all() yields, under MFENV_DIR
ExtensionFileSets ==
    { <<>>,
      << <<"/ext/metaflow_extensions/x.py", <<"metaflow_extensions", "x.py">>>> >> }
_metaflow_extension_files(ext) ==
    [i \in 1..Len(ext) |-> <<ext[i][1], os_path_join(MFENV_DIR, ext[i][2])>>]

RECURSIVE UpdateModules(_, _)
UpdateModules(d, names) ==
    IF names = <<>> THEN d
    ELSE UpdateModules(
             DictUpdate(d, _module_files(names[1], ModuleRootPaths(names[1]), <<>>,
                                         [p \in ModuleRootPaths(names[1]) |-> TreeFiles(p)]).emitted),
             Tail(names))

\* MFEnv.__init__: the selected modules in sys.modules order, then Metaflow,
\* then the extensions
MFEnvFiles(modules, ext) ==
    DictUpdate(
        DictUpdate(UpdateModules(<<>>, modules), _metaflow_distribution_files),
        _metaflow_extension_files(ext))

\* the orders in which sys.modules can hold the selected modules
ModuleOrders ==
    {<<>>} \cup {<<a>> : a \in ModuleNames}
           \cup {m \in ModuleNames \X ModuleNames : m[1] # m[2]}

EnvInit ==
    /\ \E modules \in ModuleOrders, ext \in ExtensionFileSets :
           /\ _modules = modules
           /\ _files = MFEnvFiles(modules, ext)
    /\ _content = <<>>
    /\ envError = None
    /\ lastCall = [op |-> "__init__"]

\* what callers hand to add_files
AddFilesSources == {"/x/foo.py", "/y/foo.py", "/l/foo.py"}
AddFilesArcnames == {<<"foo.py">>, <<"bar.py">>, <<"/", "abs", "foo.py">>}
AddFilesTuples == AddFilesSources \X AddFilesArcnames
AddFilesLists ==
    UNION {[1..n -> AddFilesTuples] : n \in 1..MaxAddFiles}

\* one iteration of add_files: self._files[os.path.realpath(file)] = join(MFENV_DIR, arcname)
AddOneFile(d, file, arcname) ==
    (realpath(file) :> os_path_join(MFENV_DIR, arcname)) @@ d

RECURSIVE AddFilesFold(_, _)
AddFilesFold(d, files) ==
    IF files = <<>> THEN d
    ELSE AddFilesFold(AddOneFile(d, files[1][1], files[1][2]), Tail(files))

\* MFEnv.add_files(files)
add_files ==
    /\ _files # <<>>
    /\ \E files \in AddFilesLists : _files' = AddFilesFold(_files, files)
    /\ envError' = None
    /\ lastCall' = [op |-> "add_files"]
    /\ UNCHANGED <<nonEnv, _modules, _content>>

\* MFEnv.add_directory(directory, criteria): criteria accepts the paths in accept
add_directory ==
    /\ _files # <<>>
    /\ \E directory \in {"/proj/pkg"} :
       \E accept \in SUBSET {f.src : f \in TreeFiles(directory)} :
           LET name == <<"pkg">>
               kept == {f \in TreeFiles(directory) : ~f.excluded /\ realpath(f.src) \in accept}
           IN  _files' = DictUpdate(_files,
                   SetToSeq({<<realpath(f.src), os_path_join(name, f.rel)>> : f \in kept}))
    /\ envError' = None
    /\ lastCall' = [op |-> "add_directory"]
    /\ UNCHANGED <<nonEnv, _modules, _content>>

\* MFEnv.add_module(module): getattr(module, __path__, ...) names __path__, which
\* is not defined in mfenv.py, before anything is stored
add_module ==
    /\ _files # <<>>
    /\ \E module \in ModuleNames : envError' = "NameError"
    /\ lastCall' = [op |-> "add_module"]
    /\ UNCHANGED <<nonEnv, _modules, _files, _content>>

\* class SpecialFile(Enum) and the member's .value
SpecialFile == {"INFO_FILE", "CONFIG_FILE"}
SpecialFileValueSame(name) == "INFO"
SpecialFileValue(name) == IF name = "INFO_FILE" THEN "INFO" ELSE "CONFIG_PARAMETERS"

\* the bytes callers hand to add_special_content
ContentBytes == {"b1", "b2", "b3"}

\* MFEnv.add_special_content(name, content): self._content[name] = content
add_special_content ==
    /\ _files # <<>>
    /\ \E name \in SpecialFile, content \in ContentBytes :
           /\ _content' = (name :> content) @@ _content
           /\ lastCall' = [op |-> "add_special_content", name |-> name,
                           content |-> content, had |-> name \in DOMAIN _content]
    /\ envError' = None
    /\ UNCHANGED <<nonEnv, _modules, _files>>

\* MFEnv.files()
files == {<<src, _files[src]>> : src \in DOMAIN _files}

\* MFEnv.contents()
contents ==
    {<<_content[name], os_path_join(MFENV_DIR, <<SpecialFileValue(name)>>)>>
        : name \in DOMAIN _content}

EnvNext ==
    \/ add_files
    \/ add_directory
    \/ add_module
    \/ add_special_content

EnvSpecInit == CtlIdle /\ WalkIdle /\ FiltIdle /\ EnvInit /\ ModIdle /\ AddlIdle /\ BuildIdle
EnvSpec == EnvSpecInit /\ [][EnvNext]_vars

\* the special-content store alone: any sequence of add_special_content calls
ContentNext ==
    \/ add_special_content

ContentSpec == EnvSpecInit /\ [][ContentNext]_vars

(***************************************************************************)
(* Properties of the file aggregator                                       *)
(***************************************************************************)
\* the module has an __init__.py of its own at its root
HasOwnInit(name) ==
    \E p \in ModuleRootPaths(name) :
        \E f \in TreeFiles(p) : ~f.excluded /\ f.rel = <<"__init__.py">>

ClosingMarker(name) == os_path_join(os_path_join(MFENV_DIR, <<name>>), <<"__init__.py">>)

\* C11: after MFEnv construction over any set of selected modules, files()
\* holds an entry with archive path .mfenv/<name>/__init__.py for every
\* selected module that has no __init__.py of its own, also when two or more
\* modules lack one.
C11_ClosingMarkerForEveryModule ==
    \A i \in 1..Len(_modules) :
        ~HasOwnInit(_modules[i]) => \E f \in files : f[2] = ClosingMarker(_modules[i])

\* C4: after MFEnv construction and any sequence of add_files, add_directory
\* and add_module calls, no two distinct source paths in files() map to the
\* same archive path.
C4_ArchivePathsUnique ==
    \A f, g \in files : f[2] = g[2] => f[1] = g[1]

\* C14: after MFEnv construction and any sequence of add_module,
\* add_directory, add_files and add_special_content calls, every archive path
\* returned by files() and contents() lies inside the reserved directory .mfenv.
C14_ArchivePathsInsideMfenv ==
    \A f \in files \cup contents :
        Len(f[2]) > Len(MFENV_DIR) /\ SubSeq(f[2], 1, Len(MFENV_DIR)) = MFENV_DIR

\* C22: after any sequence of add_special_content calls, contents() yields
\* exactly one entry per distinct tag that was added, carrying the bytes of
\* the most recent call for that tag, at archive path .mfenv/<tag value>;
\* distinct tags never share an archive path.
C22_OneEntryPerTag ==
    /\ [](/\ Cardinality(contents) = Cardinality(DOMAIN _content)
          /\ \A e, f \in contents : e[2] = f[2] => e = f
          /\ \A name \in DOMAIN _content :
                 <<_content[name], MFENV_DIR \o <<SpecialFileValue(name)>>>> \in contents
          /\ lastCall.op = "add_special_content"
                 => <<lastCall.content, MFENV_DIR \o
                        <<IF lastCall.name = "INFO_FILE" THEN "INFO"
                          ELSE "CONFIG_PARAMETERS">>>> \in contents)
    /\ [][lastCall'.op = "add_special_content"
             => /\ DOMAIN _content' = DOMAIN _content \cup {lastCall'.name}
                /\ \A name \in DOMAIN _content \ {lastCall'.name} :
                       _content'[name] = _content[name]]_vars

\* both tags are stored and the last call replaced the bytes of a tag that
\* was already there
C22_Witness ==
    /\ lastCall.op = "add_special_content"
    /\ lastCall.had
    /\ DOMAIN _content = SpecialFile
    /\ _content["INFO_FILE"] # _content["CONFIG_FILE"]
    /\ Cardinality(contents) = 2

(***************************************************************************)
(* One call of MFEnv._module_files, over the modules, install layouts and  *)
(* distributions it can be handed                                          *)
(***************************************************************************)
\* the resolved __path__ entries a module can have: two directories and a
\* path that is not a directory
ModDirs == {"/site/a", "/usr/a"}
ModRoots == ModDirs \cup {"/site/a.py"}

\* files os.walk can find below a module directory
ModRelFiles(dir) ==
    IF dir = "/site/a"
    THEN { [src |-> "/site/a/__init__.py", rel |-> <<"__init__.py">>, excluded |-> FALSE],
           [src |-> "/site/a/__init__.pyc", rel |-> <<"__init__.pyc">>, excluded |-> TRUE],
           [src |-> "/site/a/sub/__init__.py", rel |-> <<"sub", "__init__.py">>,
            excluded |-> FALSE] }
    ELSE { [src |-> "/usr/a/__init__.py", rel |-> <<"__init__.py">>, excluded |-> FALSE],
           [src |-> "/usr/a/x.py", rel |-> <<"x.py">>, excluded |-> FALSE] }

\* the distributions modules_to_distributions() can list for the module
Distributions ==
    [Name : {"d1", "d2"}, locate_file : {"/site/a", "/opt/a"},
     files : {<<>>, <<"a/__init__.py">>}]
DistributionLists == UNION {[1..n -> Distributions] : n \in 0..MaxDists}

ModInit ==
    /\ \E paths \in SUBSET ModRoots, distributions \in DistributionLists :
       \E tree \in {t \in [ModDirs -> SUBSET UNION {ModRelFiles(d) : d \in ModDirs}] :
                        \A d \in ModDirs : t[d] \subseteq ModRelFiles(d)} :
           modInput = [name |-> "a", paths |-> paths,
                       distributions |-> distributions, tree |-> tree]
    /\ modResult = [emitted |-> <<>>, raised |-> "idle"]

\* for k, v in self._modules.items(): self._module_files(k, v.root_paths), consumed
\* to its end
module_files_call ==
    /\ modInput.name # None
    /\ modResult.raised = "idle"
    /\ modResult' = _module_files(modInput.name, modInput.paths,
                                  modInput.distributions, modInput.tree)
    /\ UNCHANGED <<nonMod, modInput>>

ModNext ==
    \/ module_files_call

ModSpecInit == CtlIdle /\ WalkIdle /\ FiltIdle /\ EnvIdle /\ ModInit /\ AddlIdle /\ BuildIdle
ModSpec == ModSpecInit /\ [][ModNext]_vars

\* entries of the result that are the synthesized empty __init__.py, and those
\* that are an __init__.py of the module's own
Synthesized ==
    {i \in DOMAIN modResult.emitted :
        modResult.emitted[i] = <<EmptyFile, ClosingMarker(modInput.name)>>}
OwnInit ==
    {i \in DOMAIN modResult.emitted :
        /\ modResult.emitted[i][2] = ClosingMarker(modInput.name)
        /\ modResult.emitted[i][1] # EmptyFile}

\* C12: for every module _module_files resolves (the call returns): if none of
\* the emitted entries is the module's own <name>/__init__.py, exactly one more
\* entry .mfenv/<name>/__init__.py backed by the empty file is emitted; if the
\* module's own __init__.py is among the emitted entries, none is synthesized.
C12_OneMarkerUnlessOwnInit ==
    modResult.raised = None =>
        /\ OwnInit = {} => Cardinality(Synthesized) = 1
        /\ OwnInit # {} => Synthesized = {}

\* a package directory with files but no __init__.py at its root, next to a
\* single-file root: the marker is emitted after the files
C12_Witness ==
    /\ modResult.raised = None
    /\ modInput.paths = {"/site/a", "/site/a.py"}
    /\ Len(modResult.emitted) = 3
    /\ Synthesized = {3}

\* distributions that are processed: the first of each distribution name
FirstByName ==
    {i \in DOMAIN modInput.distributions :
        \A j \in 1..(i - 1) : modInput.distributions[j].Name # modInput.distributions[i].Name}

\* C13: _module_files raises the integrity error exactly when some
\* distribution of the module (after deduplication by name) has an install
\* location for the module that is not among the module's root paths.
C13_IntegrityErrorExactlyOnMismatch ==
    modResult.raised # "idle" =>
        (modResult.raised = "RuntimeError"
            <=> \E i \in FirstByName :
                    modInput.distributions[i].locate_file \notin modInput.paths)

(***************************************************************************)
(* Enumeration of the decorator contributions, one path tuple at a time    *)
(***************************************************************************)
ContribTuples == {"/lib/dep.py", "/other/dep.py"} \X {"dep.py", "util.py"}

AddlInit ==
    /\ contributions \in
           [decos : UNION {[1..n -> ContribTuples] : n \in 0..MaxContribs},
            env : {<<>>, << <<"/env/dep.py", "dep.py">> >>}]
    /\ addlIdx = 0
    /\ deco_module_paths = <<>>
    /\ emitted = <<>>
    /\ addlError = NoException

\* the body of "for path_tuple in deco.add_to_package()" for the next tuple
deco_add_to_package ==
    /\ addlError = NoException
    /\ contributions # <<>>
    /\ addlIdx < Len(contributions.decos)
    /\ LET st == AddlStep([paths |-> deco_module_paths, out |-> emitted, err |-> NoException],
                          contributions.decos[addlIdx + 1])
       IN  /\ deco_module_paths' = st.paths
           /\ emitted' = st.out
           /\ addlError' = st.err
    /\ addlIdx' = addlIdx + 1
    /\ UNCHANGED <<nonAddl, contributions>>

\* "for path_tuple in self.environment.add_to_package(): yield path_tuple"
environment_add_to_package ==
    /\ addlError = NoException
    /\ contributions # <<>>
    /\ addlIdx = Len(contributions.decos)
    /\ emitted' = emitted \o contributions.env
    /\ addlIdx' = addlIdx + 1
    /\ UNCHANGED <<nonAddl, contributions, deco_module_paths, addlError>>

AddlNext ==
    \/ deco_add_to_package
    \/ environment_add_to_package

AddlSpecInit == CtlIdle /\ WalkIdle /\ FiltIdle /\ EnvIdle /\ ModIdle /\ AddlInit /\ BuildIdle
AddlSpec == AddlSpecInit /\ [][AddlNext]_vars

(***************************************************************************)
(* Properties of the decorator contributions                               *)
(***************************************************************************)
\* the decorator tuples consumed so far
Consumed == IF addlIdx < Len(contributions.decos) THEN addlIdx ELSE Len(contributions.decos)

\* tuple j carries a name seen before with another path
Conflicts(j) ==
    \E i \in 1..(j - 1) :
        /\ contributions.decos[i][2] = contributions.decos[j][2]
        /\ contributions.decos[i][1] # contributions.decos[j][1]

\* tuple j is the first one with its name
FirstOfName(j) ==
    \A i \in 1..(j - 1) : contributions.decos[i][2] # contributions.decos[j][2]

\* the first tuples of each name among the first n, in order
RECURSIVE FirstOccurrences(_)
FirstOccurrences(n) ==
    IF n = 0 THEN <<>>
    ELSE IF FirstOfName(n) THEN Append(FirstOccurrences(n - 1), contributions.decos[n])
    ELSE FirstOccurrences(n - 1)

\* C10: across all steps and decorators the contributions are deduplicated by
\* archive file name: the first (path, name) pair is emitted, every later
\* identical pair is skipped, and a later pair with the same name but another
\* path raises NonUniqueFileNameToFilePathMappingException naming the file
\* name and both paths.
C10_ContributionsDeduplicated ==
    contributions # <<>> =>
        LET decos == contributions.decos
            n == Consumed
            first == FirstOccurrences(n)
        IN  /\ SubSeq(emitted, 1, Len(first)) = first
            /\ Len(emitted) = Len(first) + (IF addlIdx > Len(decos) THEN Len(contributions.env) ELSE 0)
            /\ (addlError # NoException <=> (n > 0 /\ Conflicts(n)))
            /\ \A j \in 1..(n - 1) : ~Conflicts(j)
            /\ addlError # NoException =>
                   \E i \in 1..(n - 1) :
                       /\ FirstOfName(i)
                       /\ decos[i][2] = decos[n][2]
                       /\ addlError = NonUniqueFileNameToFilePathMappingException(
                                          decos[n][2], <<decos[i][1], decos[n][1]>>)

C10_Witness ==
    /\ addlError # NoException
    /\ addlIdx = 3
    /\ Len(emitted) = 1
    /\ contributions.decos[1] = contributions.decos[2]

(***************************************************************************)
(* Two builds of the same file set                                         *)
(***************************************************************************)
BuildPaths == {"/site/m1/core.py", "/flow/flow.py"}

BuildInit ==
    /\ buildInput \in
           [builder : {"_make", "_create_package"},
            files : {<<>>, << <<"/site/m1/core.py", <<".mfenv", "m1", "core.py">>>> >>},
            contents : {<<>>, << <<"info", <<".mfenv", "INFO">>>> >>,
                        << <<"info", <<".mfenv", "INFO">>>>,
                           <<"config", <<".mfenv", "CONFIG_PARAMETERS">>>> >>},
            user : {<<>>, << <<"/flow/flow.py", <<"flow", "flow.py">>>> >>},
            data : [BuildPaths -> {"v1", "v2"}],
            streamLen : StreamLens]
    /\ builds = <<>>

\* one build, at wall-clock time now, of files whose modification times are mtime
BuildResult(now, mtime, lg) ==
    LET fs == [mtime |-> mtime, data |-> buildInput.data]
    IN  IF buildInput.builder = "_make"
        THEN [raised |-> FALSE, warned |-> FALSE,
              blob |-> _make(buildInput.files, buildInput.contents, buildInput.user, fs, now)]
        ELSE _create_package("info", buildInput.files \o buildInput.user, fs, now,
                             buildInput.streamLen, lg)

build ==
    /\ buildInput.builder # None
    /\ Len(builds) < 2
    /\ \E now \in Clock, mtime \in [BuildPaths -> {1, FixedMtime}], lg \in {"ok", "raises"} :
           builds' = Append(builds, [now |-> now, mtime |-> mtime,
                                     result |-> BuildResult(now, mtime, lg)])
    /\ UNCHANGED <<nonBuild, buildInput>>

BuildNext == build

BuildSpecInit == CtlIdle /\ WalkIdle /\ FiltIdle /\ EnvIdle /\ ModIdle /\ AddlIdle /\ BuildInit
BuildSpec == BuildSpecInit /\ [][BuildNext]_vars

(***************************************************************************)
(* Properties of the archive builder                                       *)
(***************************************************************************)
\* C9: two builds from the same file set and the same special content produce
\* byte-identical blobs, whatever the wall-clock time of each build and the
\* modification times of the source files; bytes 4..7 of every blob are zero.
C9_BuildsAreIdentical ==
    \A i, j \in DOMAIN builds :
        (~builds[i].result.raised /\ ~builds[j].result.raised) =>
            /\ builds[i].result.blob = builds[j].result.blob
            /\ \A k \in 4..7 : builds[i].result.blob[k + 1] = 0

C9_Witness ==
    /\ Len(builds) = 2
    /\ ~builds[1].result.raised /\ ~builds[2].result.raised
    /\ builds[1].now # builds[2].now
    /\ \A p \in BuildPaths : builds[1].mtime[p] # builds[2].mtime[p]
    /\ buildInput.files # <<>> /\ buildInput.user # <<>>

\* the tar members of a blob, after the ten bytes of the gzip header
Members(b) == SubSeq(b, 11, Len(b))

\* members written from generated content: INFO and CONFIG_PARAMETERS
IsSpecialContent(member) ==
    member.name \in {<<"INFO">>, <<".mfenv", "INFO">>, <<".mfenv", "CONFIG_PARAMETERS">>}

\* C15: in the archive produced by the builder, every special-content entry
\* (INFO, CONFIG) precedes every file entry.
C15_SpecialContentPrecedesFiles ==
    \A k \in DOMAIN builds :
        ~builds[k].result.raised =>
            LET m == Members(builds[k].result.blob)
            IN  \A i, j \in DOMAIN m :
                    (IsSpecialContent(m[j]) /\ ~IsSpecialContent(m[i])) => j < i

\* C23: every entry written to the archive, whether a file from disk or a
\* special-content entry, carries the modification time 1575360000, whatever
\* the modification time of the source file.
C23_EveryMemberHasFixedMtime ==
    \A k \in DOMAIN builds :
        ~builds[k].result.raised =>
            LET m == Members(builds[k].result.blob)
            IN  \A i \in DOMAIN m : m[i].mtime = 1575360000

\* a build of files whose modification times all differ from the fixed one,
\* holding special content as well as files from disk
C23_Witness ==
    \E k \in DOMAIN builds :
        /\ ~builds[k].result.raised
        /\ \A p \in BuildPaths : builds[k].mtime[p] = 1
        /\ LET m == Members(builds[k].result.blob)
           IN  /\ \E i \in DOMAIN m : IsSpecialContent(m[i])
               /\ \E i \in DOMAIN m : ~IsSpecialContent(m[i])
        /\ buildInput.builder = "_make"

====
